---- MODULE Spec2Model ----
(***************************************************************************)
(* The Duo log collector of app_integrations/apps/duo.py: DuoApp with its  *)
(* cursor (_last_timestamp, _more_to_poll), the signing of each request,   *)
(* one poll (_gather_logs/_get_duo_logs) taken step by step, and the       *)
(* pacing function _sleep_seconds.  The Duo API is the environment: it     *)
(* holds a finite log ordered by timestamp and answers each GET.           *)
(***************************************************************************)
EXTENDS Integers, Sequences, FiniteSets, TLC

----------------------------------------------------------------------------
(* Bounds of the model *)

\* number of distinct event timestamps in the provider's log
MaxTs == 2
\* smallest event timestamp; mintime strings span one and two digits
FirstTs == 9
\* polls of one collector in one run
MaxPolls == 3
\* distinct wall-clock instants datetime.utcnow() may return
MaxDate == 2

----------------------------------------------------------------------------
(* Constants of the program *)

\* DuoApp._MAX_RESPONSE_LOGS
MAX_RESPONSE_LOGS == 1000

\* DuoAuthApp._DUO_AUTH_LOGS_ENDPOINT
DUO_AUTH_LOGS_ENDPOINT == "/admin/v1/logs/authentication"

\* DuoAdminApp._DUO_ADMIN_LOGS_ENDPOINT
DUO_ADMIN_LOGS_ENDPOINT == "/admin/v1/logs/administrator"

\* Python's False, the falsy value _generate_auth and _get_duo_logs return
PyFalse == << >>

----------------------------------------------------------------------------
(* Values *)

Timestamps == FirstTs .. (FirstTs + MaxTs - 1)

\* the initial watermark the scheduler restores into the collector
Watermarks == {FirstTs - 1, FirstTs}

Dates == 1 .. MaxDate

\* how many records the provider holds at one timestamp: none, one, exactly
\* a page, one more than a page
Counts == {0, 1, MAX_RESPONSE_LOGS, MAX_RESPONSE_LOGS + 1}

\* the secret key as configured: a byte string, or a value of a type that
\* hmac.new rejects
SecretKeys == {[type |-> "str", value |-> "0123456789abcdefghij0123456789abcdefghij"],
               [type |-> "NoneType", value |-> ""]}

Configs == {[type |-> t,
             auth |-> [api_hostname |-> "api-abcdef12.duosecurity.com",
                       integration_key |-> "DIABCDEFGHIJKLMN1234",
                       secret_key |-> k]] :
            t \in {"auth", "admin"}, k \in SecretKeys}

----------------------------------------------------------------------------
(* str and int of Python on non-negative integers *)

Digit(d) ==
    CASE d = 0 -> "0" [] d = 1 -> "1" [] d = 2 -> "2" [] d = 3 -> "3"
      [] d = 4 -> "4" [] d = 5 -> "5" [] d = 6 -> "6" [] d = 7 -> "7"
      [] d = 8 -> "8" [] d = 9 -> "9"

RECURSIVE str(_)
str(n) == IF n < 10 THEN Digit(n) ELSE str(n \div 10) \o Digit(n % 10)

\* the provider reads the decimal string back
ParseMintime(s) == CHOOSE n \in 0 .. (FirstTs + MaxTs + 1) : str(n) = s

----------------------------------------------------------------------------
(* The provider's log.  The log is a sequence of records ordered by        *)
(* timestamp; c[t] is the number of records with timestamp t, and record   *)
(* number i (1 .. Total) is the i-th record of that sequence.  A list of   *)
(* records (a response array) is a contiguous run lo .. hi of the log.     *)

RECURSIVE CountBelow(_, _)
\* number of records with timestamp < m
CountBelow(c, m) ==
    IF m <= FirstTs THEN 0
    ELSE (IF (m - 1) \in Timestamps THEN c[m - 1] ELSE 0) + CountBelow(c, m - 1)

Total(c) == CountBelow(c, FirstTs + MaxTs)

\* logs[i]['timestamp'] for record number i of the log
TimestampOf(c, i) ==
    CHOOSE t \in Timestamps : CountBelow(c, t) < i /\ i <= CountBelow(c, t + 1)

Min(a, b) == IF a <= b THEN a ELSE b

\* the first at most k records with timestamp >= m
Slice(c, m, k) ==
    LET lo == CountBelow(c, m) + 1
    IN  [lo |-> lo, hi |-> Min(lo + k - 1, Total(c))]

\* len(logs)
len(l) == l.hi - l.lo + 1

EmptyList == [lo |-> 1, hi |-> 0]

----------------------------------------------------------------------------
(* State *)

VARIABLES
    config,          \* self._config: the app type and the credentials
    plog,            \* the provider's log: records per timestamp
    last_timestamp,  \* self._last_timestamp
    more_to_poll,    \* self._more_to_poll
    poll_count,      \* self._poll_count
    pc,              \* the step the current poll is about to take
    params,          \* local params of _get_duo_logs
    headers,         \* local headers of _get_duo_logs
    request,         \* the GET handed to requests.get
    response,        \* local response of _get_duo_logs
    logs,            \* local logs of _get_duo_logs
    ret,             \* how the poll ended: the value returned or the exception raised
    sleep,           \* the last call of _sleep_seconds: its poll count and result
    cursor0,         \* history: the cursor when the current poll started
    w0,              \* history: the watermark the collector was constructed with
    delivered,       \* history: the batches returned by successful polls, in order
    failedAt,        \* history: the step at which the current poll failed
    prev,            \* history: mintime and failing step of the previous poll
    anyFailed,       \* history: some poll of this run has failed
    signedIn,        \* history: the poll count of the poll that last signed
    peer,            \* a second collector instance, when there is one
    clock,           \* wall-clock seconds, where the pacing is observed
    sentAt,          \* history: the clock at each request, where the pacing is observed
    rec,             \* the record handed to the rule duo_anonymous_ip_failure
    rule_result      \* what the rule did with rec

cursor == [last_timestamp |-> last_timestamp, more_to_poll |-> more_to_poll]

locals == <<params, headers, request, response, logs>>

hist == <<cursor0, w0, delivered, failedAt, prev, anyFailed>>

\* the state outside the one collector
others == <<peer, clock, sentAt, rec, rule_result>>

vars == <<config, plog, last_timestamp, more_to_poll, poll_count, pc, params,
          headers, request, response, logs, ret, sleep, cursor0, w0, delivered,
          failedAt, prev, anyFailed, signedIn, peer, clock, sentAt, rec,
          rule_result>>

NoParams == [mintime |-> ""]

NoRequest == [url |-> "", headers |-> PyFalse, params |-> NoParams]

NoBody == [kind |-> "none", response |-> EmptyList, keyed |-> TRUE]

NoResponse == [status_code |-> 0, body |-> NoBody]

\* there is no second collector
NoPeer == [pc |-> "ABSENT"]

\* the rule has not been handed a record
NoRec == [result |-> ""]

\* the rule has not been called
NoResult == [called |-> FALSE, raised |-> "", value |-> FALSE]

\* no collector is running, no rule is evaluated
Elsewhere ==
    /\ peer = NoPeer
    /\ clock = 0
    /\ sentAt = << >>
    /\ rec = NoRec
    /\ rule_result = NoResult

\* _sleep_seconds has not been called yet
NoSleep == [poll_count |-> -1, seconds |-> 0]

----------------------------------------------------------------------------
(* DuoApp *)

\* cls._endpoint() of the two subclasses
endpoint(cfg) ==
    IF cfg.type = "auth" THEN DUO_AUTH_LOGS_ENDPOINT ELSE DUO_ADMIN_LOGS_ENDPOINT

\* hostname of _gather_logs
hostname(cfg) == cfg.auth.api_hostname

\* the slip of one endpoint for both log types
full_url_auth(cfg) == "https://" \o hostname(cfg) \o DUO_AUTH_LOGS_ENDPOINT

\* full_url of _gather_logs
full_url(cfg) == "https://" \o hostname(cfg) \o endpoint(cfg)

\* the slip of subtracting where the code adds
build_params_decrement(ts) == [mintime |-> str(ts - 1)]

\* the slip of asking from the watermark itself
build_params_no_increment(ts) == [mintime |-> str(ts)]

\* params of _get_duo_logs: {'mintime': str(int(self._last_timestamp + 1))};
\* int() of an integer is that integer
build_params(ts) == [mintime |-> str(ts + 1)]

\* urllib.urlencode(params) for the one-entry dict
urlencode(p) == "mintime=" \o p.mintime

\* hmac.new(key, msg, hashlib.sha1) raises TypeError unless key is a byte string
hmac_accepts(key) == key.type = "str"

\* _generate_auth(hostname, params) at the instant now
generate_auth(cfg, host, p, now) ==
    LET formatted_date == [utc |-> now, format |-> "%a, %d %b %Y %H:%M:%S -0000"]
        auth_string == <<formatted_date, "GET", host, endpoint(cfg), urlencode(p)>>
        hexdigest == [hmac_sha1 |-> auth_string, key |-> cfg.auth.secret_key.value]
        basic_auth == <<cfg.auth.integration_key, ":", hexdigest>>
    IN  IF ~hmac_accepts(cfg.auth.secret_key) THEN PyFalse
        ELSE [Date |-> formatted_date,
              Authorization |-> [scheme |-> "Basic", b64encode |-> basic_auth],
              Host |-> host]

\* AppIntegration._check_http_response(response)
check_http_response(r) ==
    r.status_code >= 200 /\ r.status_code <= 299 /\ r.body.kind # "html"

\* the slip of reading logs[0] where the code reads logs[-1]
last_item_timestamp_first(l) == TimestampOf(plog, l.lo)

\* logs[-1]['timestamp']
last_item_timestamp(l) == TimestampOf(plog, l.hi)

\* the slip of > where the code has >=
full_page_strict(l) == len(l) > MAX_RESPONSE_LOGS

\* len(logs) >= self._MAX_RESPONSE_LOGS
full_page(l) == len(l) >= MAX_RESPONSE_LOGS

\* _sleep_seconds: abs((self._poll_count % 2) - 1) * 60
abs(x) == IF x < 0 THEN 0 - x ELSE x

\* the slip of pausing half the window
sleep_seconds_half(n) == abs((n % 2) - 1) * 30

\* the pacing without the inversion abs(. - 1)
sleep_seconds_odd(n) == (n % 2) * 60

sleep_seconds(n) == abs((n % 2) - 1) * 60

----------------------------------------------------------------------------
(* The provider *)

\* status of a served and of a refused request
Statuses == {200, 500}

\* a page never holds more than MAX_RESPONSE_LOGS records; a provider may cut
\* it shorter
PageLimits == {1, MAX_RESPONSE_LOGS}

\* the page the provider owes for mintime m
Page(m) == Slice(plog, m, MAX_RESPONSE_LOGS)

\* the bodies the provider may answer a request for mintime m with: a page
\* that is not JSON, JSON without 'response', a run of the log starting at
\* mintime or at any other timestamp, and a list of records without timestamp
Bodies(m) ==
    {[kind |-> "html", response |-> EmptyList, keyed |-> TRUE],
     [kind |-> "nokey", response |-> EmptyList, keyed |-> TRUE],
     [kind |-> "list", response |-> Page(m), keyed |-> FALSE]}
    \cup {[kind |-> "list", response |-> Slice(plog, f, k), keyed |-> TRUE] :
            f \in Timestamps \cup {m}, k \in PageLimits}

\* the answers to a request for mintime m: any body with status 200, and an
\* error status with an error page or with the page
Responses(m) ==
    {[status_code |-> 200, body |-> b] : b \in Bodies(m)}
    \cup {[status_code |-> st, body |-> b] :
            st \in Statuses \ {200},
            b \in {[kind |-> "html", response |-> EmptyList, keyed |-> TRUE],
                   [kind |-> "list", response |-> Page(m), keyed |-> TRUE]}}

----------------------------------------------------------------------------
(* Initial state: a constructed collector with a restored watermark *)

Init ==
    /\ config \in Configs
    /\ plog \in [Timestamps -> Counts]
    /\ last_timestamp \in Watermarks
    /\ more_to_poll = FALSE
    /\ poll_count = 0
    /\ pc = "IDLE"
    /\ params = NoParams
    /\ headers = PyFalse
    /\ request = NoRequest
    /\ response = NoResponse
    /\ logs = EmptyList
    /\ ret = ""
    /\ sleep = NoSleep
    /\ cursor0 = [last_timestamp |-> last_timestamp, more_to_poll |-> FALSE]
    /\ w0 = last_timestamp
    /\ delivered = << >>
    /\ failedAt = ""
    /\ prev = [mintime |-> "", failedAt |-> ""]
    /\ anyFailed = FALSE
    /\ signedIn = -1
    /\ Elsewhere

----------------------------------------------------------------------------
(* One poll, step by step *)

\* the poll ends without a result: return False, or an exception
Fail(step, how) ==
    /\ pc' = "FAILED"
    /\ ret' = how
    /\ failedAt' = step
    /\ anyFailed' = TRUE

\* the caller invokes _gather_logs
GatherLogs ==
    /\ pc = "IDLE"
    /\ poll_count < MaxPolls
    /\ pc' = "BUILD_REQUEST"
    /\ cursor0' = cursor
    /\ UNCHANGED <<config, plog, last_timestamp, more_to_poll, poll_count,
                   locals, ret, sleep, w0, delivered, failedAt, prev, anyFailed>>
    /\ UNCHANGED <<signedIn, others>>

\* params = {'mintime': ...}
BuildRequest ==
    /\ pc = "BUILD_REQUEST"
    /\ params' = build_params(last_timestamp)
    /\ pc' = "SIGN"
    /\ UNCHANGED <<config, plog, last_timestamp, more_to_poll, poll_count,
                   headers, request, response, logs, ret, sleep, hist>>
    /\ UNCHANGED <<signedIn, others>>

\* the slip of leaving out "if not headers: return False"
Sign_unchecked ==
    /\ pc = "SIGN"
    /\ \E now \in Dates :
          headers' = generate_auth(config, hostname(config), params, now)
    /\ pc' = "FETCH"
    /\ UNCHANGED <<ret, failedAt, anyFailed>>
    /\ UNCHANGED <<config, plog, last_timestamp, more_to_poll, poll_count,
                   params, request, response, logs, sleep, cursor0, w0,
                   delivered, prev>>
    /\ signedIn' = poll_count
    /\ UNCHANGED others

\* headers = self._generate_auth(hostname, params); if not headers: return False
Sign ==
    /\ pc = "SIGN"
    /\ \E now \in Dates :
          headers' = generate_auth(config, hostname(config), params, now)
    /\ IF headers' = PyFalse
       THEN Fail("SIGN", "False")
       ELSE pc' = "FETCH" /\ UNCHANGED <<ret, failedAt, anyFailed>>
    /\ UNCHANGED <<config, plog, last_timestamp, more_to_poll, poll_count,
                   params, request, response, logs, sleep, cursor0, w0,
                   delivered, prev>>
    /\ signedIn' = poll_count
    /\ UNCHANGED others

\* response = requests.get(full_url, headers=headers, params=params)
Fetch ==
    /\ pc = "FETCH"
    /\ request' = [url |-> full_url(config), headers |-> headers, params |-> params]
    /\ \/ /\ response' \in Responses(ParseMintime(params.mintime))
          /\ pc' = "VALIDATE_RESPONSE"
          /\ UNCHANGED <<ret, failedAt, anyFailed>>
       \/ \* the transport raises, and nothing catches it
          /\ Fail("FETCH", "ConnectionError")
          /\ UNCHANGED response
    /\ UNCHANGED <<config, plog, last_timestamp, more_to_poll, poll_count,
                   params, headers, logs, sleep, cursor0, w0, delivered, prev>>
    /\ UNCHANGED <<signedIn, others>>

\* the slip of moving the cursor before the response is checked
ValidateResponse_advances ==
    /\ pc = "VALIDATE_RESPONSE"
    /\ last_timestamp' = IF response.body.kind = "list" /\ len(response.body.response) > 0
                         THEN TimestampOf(plog, response.body.response.hi)
                         ELSE last_timestamp
    /\ IF check_http_response(response)
       THEN pc' = "DECODE" /\ UNCHANGED <<ret, failedAt, anyFailed>>
       ELSE Fail("VALIDATE_RESPONSE", "False")
    /\ UNCHANGED <<config, plog, more_to_poll, poll_count,
                   locals, sleep, cursor0, w0, delivered, prev>>
    /\ UNCHANGED <<signedIn, others>>

\* if not self._check_http_response(response): return False
ValidateResponse ==
    /\ pc = "VALIDATE_RESPONSE"
    /\ IF check_http_response(response)
       THEN pc' = "DECODE" /\ UNCHANGED <<ret, failedAt, anyFailed>>
       ELSE Fail("VALIDATE_RESPONSE", "False")
    /\ UNCHANGED <<config, plog, last_timestamp, more_to_poll, poll_count,
                   locals, sleep, cursor0, w0, delivered, prev>>
    /\ UNCHANGED <<signedIn, others>>

\* logs = response.json()['response']
Decode ==
    /\ pc = "DECODE"
    /\ IF response.body.kind = "list"
       THEN /\ logs' = response.body.response
            /\ pc' = "ADVANCE_CURSOR"
            /\ UNCHANGED <<ret, failedAt, anyFailed>>
       ELSE /\ Fail("DECODE", IF response.body.kind = "html"
                              THEN "ValueError" ELSE "KeyError")
            /\ UNCHANGED logs
    /\ UNCHANGED <<config, plog, last_timestamp, more_to_poll, poll_count,
                   params, headers, request, response, sleep, cursor0, w0,
                   delivered, prev>>
    /\ UNCHANGED <<signedIn, others>>

\* the slip of setting _more_to_poll before the last record is read
AdvanceCursor_reordered ==
    /\ pc = "ADVANCE_CURSOR"
    /\ more_to_poll' = full_page(logs)
    /\ IF len(logs) = 0
       THEN /\ Fail("ADVANCE_CURSOR", "IndexError")
            /\ UNCHANGED <<last_timestamp, delivered>>
       ELSE IF ~response.body.keyed
       THEN /\ Fail("ADVANCE_CURSOR", "KeyError")
            /\ UNCHANGED <<last_timestamp, delivered>>
       ELSE /\ last_timestamp' = last_item_timestamp(logs)
            /\ ret' = "logs"
            /\ pc' = "DONE"
            /\ delivered' = Append(delivered,
                                   [mintime |-> ParseMintime(params.mintime),
                                    lo |-> logs.lo, hi |-> logs.hi])
            /\ UNCHANGED <<failedAt, anyFailed>>
    /\ UNCHANGED <<config, plog, poll_count, locals, sleep, cursor0, w0, prev>>
    /\ UNCHANGED <<signedIn, others>>

\* self._last_timestamp = logs[-1]['timestamp']
\* self._more_to_poll = len(logs) >= self._MAX_RESPONSE_LOGS
\* return logs
AdvanceCursor ==
    /\ pc = "ADVANCE_CURSOR"
    /\ IF len(logs) = 0
       THEN /\ Fail("ADVANCE_CURSOR", "IndexError")
            /\ UNCHANGED <<last_timestamp, more_to_poll, delivered>>
       ELSE IF ~response.body.keyed
       THEN /\ Fail("ADVANCE_CURSOR", "KeyError")
            /\ UNCHANGED <<last_timestamp, more_to_poll, delivered>>
       ELSE /\ last_timestamp' = last_item_timestamp(logs)
            /\ more_to_poll' = full_page(logs)
            /\ ret' = "logs"
            /\ pc' = "DONE"
            /\ delivered' = Append(delivered,
                                   [mintime |-> ParseMintime(params.mintime),
                                    lo |-> logs.lo, hi |-> logs.hi])
            /\ UNCHANGED <<failedAt, anyFailed>>
    /\ UNCHANGED <<config, plog, poll_count, locals, sleep, cursor0, w0, prev>>
    /\ UNCHANGED <<signedIn, others>>

\* the caller asks _sleep_seconds how long to wait, and the poll is counted
Pace ==
    /\ pc \in {"DONE", "FAILED"}
    /\ sleep' = [poll_count |-> poll_count, seconds |-> sleep_seconds(poll_count)]
    /\ poll_count' = poll_count + 1
    /\ prev' = [mintime |-> params.mintime, failedAt |-> failedAt]
    /\ pc' = "IDLE"
    /\ params' = NoParams
    /\ headers' = PyFalse
    /\ request' = NoRequest
    /\ response' = NoResponse
    /\ logs' = EmptyList
    /\ ret' = ""
    /\ failedAt' = ""
    /\ UNCHANGED <<config, plog, last_timestamp, more_to_poll, cursor0, w0,
                   delivered, anyFailed>>
    /\ UNCHANGED <<signedIn, others>>

Next ==
    \/ GatherLogs
    \/ BuildRequest
    \/ Sign
    \/ Fetch
    \/ ValidateResponse
    \/ Decode
    \/ AdvanceCursor
    \/ Pace

Spec == Init /\ [][Next]_vars

----------------------------------------------------------------------------
(* The pacing function alone: a collector that has polled any number of    *)
(* times is asked how long to sleep.                                       *)

\* largest poll count the pacing function is asked about
MaxPollCount == 60

InitSleep ==
    /\ config \in Configs
    /\ plog = [t \in Timestamps |-> 0]
    /\ last_timestamp \in Watermarks
    /\ more_to_poll = FALSE
    /\ poll_count \in 0 .. MaxPollCount
    /\ pc = "IDLE"
    /\ params = NoParams
    /\ headers = PyFalse
    /\ request = NoRequest
    /\ response = NoResponse
    /\ logs = EmptyList
    /\ ret = ""
    /\ sleep = NoSleep
    /\ cursor0 = [last_timestamp |-> last_timestamp, more_to_poll |-> FALSE]
    /\ w0 = last_timestamp
    /\ delivered = << >>
    /\ failedAt = ""
    /\ prev = [mintime |-> "", failedAt |-> ""]
    /\ anyFailed = FALSE
    /\ signedIn = -1
    /\ Elsewhere

\* the caller calls self._sleep_seconds()
SleepSeconds ==
    /\ pc = "IDLE"
    /\ sleep' = [poll_count |-> poll_count, seconds |-> sleep_seconds(poll_count)]
    /\ UNCHANGED <<config, plog, last_timestamp, more_to_poll, poll_count, pc,
                   locals, ret, hist>>
    /\ UNCHANGED <<signedIn, others>>

NextSleep == SleepSeconds

SpecSleep == InitSleep /\ [][NextSleep]_vars

----------------------------------------------------------------------------
(* Two collectors: the authentication collector above and an administrator *)
(* collector, each with its own configuration, cursor and endpoint log.    *)
(* The second collector is the record peer; its poll takes the same steps. *)

\* the variables of the first collector
self == <<config, plog, last_timestamp, more_to_poll, poll_count, pc, params,
          headers, request, response, logs, ret, sleep, cursor0, w0, delivered,
          failedAt, prev, anyFailed, signedIn>>

\* an endpoint log with one full page of records at the first timestamp
OnePageLog == [t \in Timestamps |-> IF t = FirstTs THEN MAX_RESPONSE_LOGS ELSE 0]

\* a constructed second collector
NewPeer(cfg) ==
    [config |-> cfg, plog |-> OnePageLog,
     last_timestamp |-> FirstTs - 1, more_to_poll |-> FALSE, poll_count |-> 0,
     pc |-> "IDLE", params |-> NoParams, headers |-> PyFalse,
     request |-> NoRequest, response |-> NoResponse, logs |-> EmptyList,
     ret |-> "", failedAt |-> "",
     cursor0 |-> [last_timestamp |-> FirstTs - 1, more_to_poll |-> FALSE]]

\* the answers of the administrator endpoint to a request for mintime m
PeerResponses(c, m) ==
    {[status_code |-> 200,
      body |-> [kind |-> "list", response |-> Slice(c, m, k), keyed |-> TRUE]] :
        k \in PageLimits}
    \cup {[status_code |-> 200,
           body |-> [kind |-> "nokey", response |-> EmptyList, keyed |-> TRUE]],
          [status_code |-> 500,
           body |-> [kind |-> "html", response |-> EmptyList, keyed |-> TRUE]]}

Init2 ==
    /\ config \in {c \in Configs : c.type = "auth"}
    /\ plog = OnePageLog
    /\ last_timestamp = FirstTs - 1
    /\ more_to_poll = FALSE
    /\ poll_count = 0
    /\ pc = "IDLE"
    /\ params = NoParams
    /\ headers = PyFalse
    /\ request = NoRequest
    /\ response = NoResponse
    /\ logs = EmptyList
    /\ ret = ""
    /\ sleep = NoSleep
    /\ cursor0 = [last_timestamp |-> last_timestamp, more_to_poll |-> FALSE]
    /\ w0 = last_timestamp
    /\ delivered = << >>
    /\ failedAt = ""
    /\ prev = [mintime |-> "", failedAt |-> ""]
    /\ anyFailed = FALSE
    /\ signedIn = -1
    /\ peer \in {NewPeer(c) : c \in {d \in Configs : d.type = "admin"}}
    /\ clock = 0
    /\ sentAt = << >>
    /\ rec = NoRec
    /\ rule_result = NoResult

\* the second collector after a step that ends its poll without a result
PeerFail(step, how) ==
    [peer EXCEPT !.pc = "FAILED", !.ret = how, !.failedAt = step]

\* a step of the second collector touches nothing else
PeerOnly == UNCHANGED <<self, clock, sentAt, rec, rule_result>>

PeerGatherLogs ==
    /\ peer.pc = "IDLE"
    /\ peer.poll_count < MaxPolls
    /\ peer' = [peer EXCEPT !.pc = "BUILD_REQUEST",
                            !.cursor0 = [last_timestamp |-> peer.last_timestamp,
                                         more_to_poll |-> peer.more_to_poll]]
    /\ PeerOnly

PeerBuildRequest ==
    /\ peer.pc = "BUILD_REQUEST"
    /\ peer' = [peer EXCEPT !.params = build_params(peer.last_timestamp),
                            !.pc = "SIGN"]
    /\ PeerOnly

PeerSign ==
    /\ peer.pc = "SIGN"
    /\ \E now \in Dates :
          LET h == generate_auth(peer.config, hostname(peer.config), peer.params, now)
          IN  peer' = IF h = PyFalse
                      THEN [PeerFail("SIGN", "False") EXCEPT !.headers = h]
                      ELSE [peer EXCEPT !.headers = h, !.pc = "FETCH"]
    /\ PeerOnly

PeerFetch ==
    /\ peer.pc = "FETCH"
    /\ LET req == [url |-> full_url(peer.config), headers |-> peer.headers,
                   params |-> peer.params]
       IN  \/ \E r \in PeerResponses(peer.plog, ParseMintime(peer.params.mintime)) :
                peer' = [peer EXCEPT !.request = req, !.response = r,
                                     !.pc = "VALIDATE_RESPONSE"]
           \/ peer' = [PeerFail("FETCH", "ConnectionError") EXCEPT !.request = req]
    /\ PeerOnly

PeerValidateResponse ==
    /\ peer.pc = "VALIDATE_RESPONSE"
    /\ peer' = IF check_http_response(peer.response)
               THEN [peer EXCEPT !.pc = "DECODE"]
               ELSE PeerFail("VALIDATE_RESPONSE", "False")
    /\ PeerOnly

PeerDecode ==
    /\ peer.pc = "DECODE"
    /\ peer' = IF peer.response.body.kind = "list"
               THEN [peer EXCEPT !.logs = peer.response.body.response,
                                 !.pc = "ADVANCE_CURSOR"]
               ELSE PeerFail("DECODE", IF peer.response.body.kind = "html"
                                       THEN "ValueError" ELSE "KeyError")
    /\ PeerOnly

\* the slip of keeping the cursor in a class attribute, shared by all instances
PeerAdvanceCursor_shared ==
    /\ peer.pc = "ADVANCE_CURSOR"
    /\ IF len(peer.logs) = 0
       THEN /\ peer' = PeerFail("ADVANCE_CURSOR", "IndexError")
            /\ UNCHANGED <<last_timestamp, more_to_poll>>
       ELSE /\ peer' = [peer EXCEPT
                          !.last_timestamp = TimestampOf(peer.plog, peer.logs.hi),
                          !.more_to_poll = full_page(peer.logs),
                          !.ret = "logs",
                          !.pc = "DONE"]
            /\ last_timestamp' = TimestampOf(peer.plog, peer.logs.hi)
            /\ more_to_poll' = full_page(peer.logs)
    /\ UNCHANGED <<config, plog, poll_count, pc, locals, ret, sleep, hist,
                   signedIn, clock, sentAt, rec, rule_result>>

PeerAdvanceCursor ==
    /\ peer.pc = "ADVANCE_CURSOR"
    /\ peer' = IF len(peer.logs) = 0
               THEN PeerFail("ADVANCE_CURSOR", "IndexError")
               ELSE [peer EXCEPT
                       !.last_timestamp = TimestampOf(peer.plog, peer.logs.hi),
                       !.more_to_poll = full_page(peer.logs),
                       !.ret = "logs",
                       !.pc = "DONE"]
    /\ PeerOnly

\* the poll of the second collector has returned and is counted
PeerPace ==
    /\ peer.pc \in {"DONE", "FAILED"}
    /\ peer' = [peer EXCEPT !.poll_count = peer.poll_count + 1,
                            !.pc = "IDLE", !.params = NoParams,
                            !.headers = PyFalse, !.request = NoRequest,
                            !.response = NoResponse, !.logs = EmptyList,
                            !.ret = "", !.failedAt = ""]
    /\ PeerOnly

Next2 ==
    \/ GatherLogs
    \/ BuildRequest
    \/ Sign
    \/ Fetch
    \/ ValidateResponse
    \/ Decode
    \/ AdvanceCursor
    \/ Pace
    \/ PeerGatherLogs
    \/ PeerBuildRequest
    \/ PeerSign
    \/ PeerFetch
    \/ PeerValidateResponse
    \/ PeerDecode
    \/ PeerAdvanceCursor
    \/ PeerPace

Spec2 == Init2 /\ [][Next2]_vars

----------------------------------------------------------------------------
(* One collector whose steps are taken: the interpreter runs a poll to its *)
(* end and the transport answers or raises.                                *)

\* endpoint logs of whole pages
PageLogs == [Timestamps -> {0, MAX_RESPONSE_LOGS}]

InitLive == Init /\ plog \in PageLogs

SpecLive == InitLive /\ [][Next]_vars /\ WF_vars(Next)

----------------------------------------------------------------------------
(* One collection cycle: the caller polls, and polls again while           *)
(* _more_to_poll is true; every exchange succeeds and the provider answers *)
(* with the page it owes.                                                  *)

InitCycle == Init /\ config.auth.secret_key.type = "str"

\* the caller polls once, and again while self._more_to_poll
GatherLogsWhileMore ==
    /\ poll_count = 0 \/ more_to_poll
    /\ GatherLogs

\* requests.get is answered with status 200 and the page for mintime
FetchPage ==
    /\ Fetch
    /\ response' = [status_code |-> 200,
                    body |-> [kind |-> "list",
                              response |-> Page(ParseMintime(params.mintime)),
                              keyed |-> TRUE]]

NextCycle ==
    \/ GatherLogsWhileMore
    \/ BuildRequest
    \/ Sign
    \/ FetchPage
    \/ ValidateResponse
    \/ Decode
    \/ AdvanceCursor
    \/ Pace

SpecCycle == InitCycle /\ [][NextCycle]_vars /\ WF_vars(NextCycle)

----------------------------------------------------------------------------
(* The pacing observed on a clock: the caller issues the polls one after   *)
(* the other and, after the poll with count k, sleeps _sleep_seconds()     *)
(* seconds.  A poll takes some seconds before and after its one request.   *)

\* polls of one paced run
MaxPacedPolls == 5
\* most seconds a poll spends before its request, and after it
MaxPollSeconds == 1

\* Duo allows for 2 API requests ...
RateLimit == 2
\* ... every 1 minute
RateWindow == 60

InitPacing ==
    /\ config \in {c \in Configs : c.auth.secret_key.type = "str"}
    /\ plog = OnePageLog
    /\ last_timestamp = FirstTs - 1
    /\ more_to_poll = FALSE
    /\ poll_count = 0
    /\ pc = "IDLE"
    /\ params = NoParams
    /\ headers = PyFalse
    /\ request = NoRequest
    /\ response = NoResponse
    /\ logs = EmptyList
    /\ ret = ""
    /\ sleep = NoSleep
    /\ cursor0 = [last_timestamp |-> last_timestamp, more_to_poll |-> FALSE]
    /\ w0 = last_timestamp
    /\ delivered = << >>
    /\ failedAt = ""
    /\ prev = [mintime |-> "", failedAt |-> ""]
    /\ anyFailed = FALSE
    /\ signedIn = -1
    /\ Elsewhere

\* one poll, with its request on the clock
PacedPoll ==
    /\ pc = "IDLE"
    /\ poll_count < MaxPacedPolls
    /\ \E before, after \in 0 .. MaxPollSeconds :
          /\ sentAt' = Append(sentAt, clock + before)
          /\ clock' = clock + before + after
    /\ pc' = "DONE"
    /\ UNCHANGED <<config, plog, last_timestamp, more_to_poll, poll_count,
                   locals, ret, sleep, hist, signedIn, peer, rec, rule_result>>

\* time.sleep(self._sleep_seconds()), and the poll is counted
PacedSleep ==
    /\ pc = "DONE"
    /\ sleep' = [poll_count |-> poll_count, seconds |-> sleep_seconds(poll_count)]
    /\ clock' = clock + sleep_seconds(poll_count)
    /\ poll_count' = poll_count + 1
    /\ pc' = "IDLE"
    /\ UNCHANGED <<config, plog, last_timestamp, more_to_poll, locals, ret,
                   hist, signedIn, peer, sentAt, rec, rule_result>>

NextPacing ==
    \/ PacedPoll
    \/ PacedSleep

SpecPacing == InitPacing /\ [][NextPacing]_vars

----------------------------------------------------------------------------
(* The community rule duo_anonymous_ip_failure, applied to one record of   *)
(* the authentication log.  A record is a dict: a key it does not carry is *)
(* outside its DOMAIN.                                                      *)

Results == {"SUCCESS", "FAILURE", "FRAUD"}
Reasons == {"Anonymous IP", "anonymous ip", "User approved", "Invalid passcode", ""}
Factors == {"Duo Push", "Passcode"}

\* the records of the authentication log, with and without a reason
AuthRecords ==
    {[result |-> r, factor |-> f, new_enrollment |-> n] :
        r \in Results, f \in Factors, n \in BOOLEAN}
    \cup
    {[result |-> r, reason |-> q, factor |-> f, new_enrollment |-> n] :
        r \in Results, q \in Reasons, f \in Factors, n \in BOOLEAN}

\* rec['result'] == 'FAILURE' and rec['reason'] == 'Anonymous IP': the
\* right operand is evaluated only when the left one is true, and rec[k]
\* raises KeyError for a key the dict does not carry
duo_anonymous_ip_failure(r) ==
    IF r.result # "FAILURE"
    THEN [called |-> TRUE, raised |-> "", value |-> FALSE]
    ELSE IF "reason" \notin DOMAIN r
         THEN [called |-> TRUE, raised |-> "KeyError", value |-> FALSE]
         ELSE [called |-> TRUE, raised |-> "", value |-> r.reason = "Anonymous IP"]

InitRule ==
    /\ config \in {c \in Configs : c.type = "auth" /\ c.auth.secret_key.type = "str"}
    /\ plog = OnePageLog
    /\ last_timestamp = FirstTs - 1
    /\ more_to_poll = FALSE
    /\ poll_count = 0
    /\ pc = "IDLE"
    /\ params = NoParams
    /\ headers = PyFalse
    /\ request = NoRequest
    /\ response = NoResponse
    /\ logs = EmptyList
    /\ ret = ""
    /\ sleep = NoSleep
    /\ cursor0 = [last_timestamp |-> last_timestamp, more_to_poll |-> FALSE]
    /\ w0 = last_timestamp
    /\ delivered = << >>
    /\ failedAt = ""
    /\ prev = [mintime |-> "", failedAt |-> ""]
    /\ anyFailed = FALSE
    /\ signedIn = -1
    /\ peer = NoPeer
    /\ clock = 0
    /\ sentAt = << >>
    /\ rec \in AuthRecords
    /\ rule_result = NoResult

\* the rules engine calls the rule with the record
ApplyRule ==
    /\ ~rule_result.called
    /\ rule_result' = duo_anonymous_ip_failure(rec)
    /\ UNCHANGED <<config, plog, last_timestamp, more_to_poll, poll_count, pc,
                   locals, ret, sleep, hist, signedIn, peer, clock, sentAt, rec>>

NextRule == ApplyRule

SpecRule == InitRule /\ [][NextRule]_vars

----------------------------------------------------------------------------
(* Properties *)

\* the batch the current poll decoded
Batch == response.body.response

\* the poll got a 2xx answer whose body holds a response array
Decoded == check_http_response(response) /\ response.body.kind = "list"

\* every record of the non-empty batch b has a timestamp >= m; the batch is
\* ordered, so its first record has the least timestamp
RespectsMintime(b, m) == TimestampOf(plog, b.lo) >= m

\* record number i of the log was returned by a successful poll
Delivered(i) == \E j \in 1 .. Len(delivered) : delivered[j].lo <= i /\ i <= delivered[j].hi

\* every poll so far succeeded and was answered with the page the provider owes
ProviderContract ==
    /\ ~anyFailed
    /\ \A j \in 1 .. Len(delivered) :
          [lo |-> delivered[j].lo, hi |-> delivered[j].hi] = Page(delivered[j].mintime)

\* C1: a poll that fails at any step (signing, transport, validation, decoding,
\* reading the batch) leaves last_timestamp and more_to_poll as they were when
\* the poll started.
C1_AdvanceOnlyOnSuccess == pc = "FAILED" => cursor = cursor0

\* a poll failed on reading the batch after an earlier poll had moved the cursor
C1_Witness ==
    /\ pc = "FAILED"
    /\ failedAt = "ADVANCE_CURSOR"
    /\ Len(delivered) > 0
    /\ cursor0.more_to_poll

\* C2: when every poll succeeded against a provider that answers with the first
\* at most MAX_RESPONSE_LOGS records with timestamp >= mintime, and the caller
\* has polled until more_to_poll is false, every record with a timestamp above
\* the initial watermark was returned by some poll.
C2_NoRecordLoss ==
    (pc = "DONE" /\ ~more_to_poll /\ ProviderContract)
        => \A i \in 1 .. Total(plog) : TimestampOf(plog, i) > w0 => Delivered(i)

\* C3: a poll whose exchange succeeds with an empty response array completes
\* successfully, leaves last_timestamp unchanged and sets more_to_poll to false.
C3_EmptyBatchCompletes ==
    (pc \in {"DONE", "FAILED"} /\ Decoded /\ len(Batch) = 0)
        => (pc = "DONE" /\ last_timestamp = cursor0.last_timestamp /\ ~more_to_poll)

\* C4 as claimed: last_timestamp never decreases, whatever ordered batch the
\* provider returns.
C4_MonotoneWatermark == [][last_timestamp' >= last_timestamp]_vars

\* C4 amended: last_timestamp never decreases in a poll whose batch holds only
\* records with timestamp >= the mintime that poll sent.
C4_MonotoneWatermarkFiltered ==
    [][(pc = "ADVANCE_CURSOR" /\ len(logs) > 0
            /\ ~RespectsMintime(logs, ParseMintime(request.params.mintime)))
       \/ last_timestamp' >= last_timestamp]_vars

\* a poll moved the watermark forward with a batch that respects mintime
C4_Witness ==
    /\ pc = "DONE"
    /\ RespectsMintime(logs, ParseMintime(request.params.mintime))
    /\ last_timestamp > cursor0.last_timestamp
    /\ Len(delivered) > 1

\* C5: after a successful poll with a non-empty batch B, last_timestamp is the
\* timestamp of the last element of B and the poll returned B.
C5_WatermarkIsLastOfBatch ==
    pc = "DONE" =>
        /\ len(Batch) > 0
        /\ last_timestamp = TimestampOf(plog, Batch.hi)
        /\ ret = "logs"
        /\ logs = Batch

\* a successful poll whose batch spans two timestamps
C5_Witness ==
    /\ pc = "DONE"
    /\ TimestampOf(plog, Batch.lo) < TimestampOf(plog, Batch.hi)

\* C6: after a successful poll with batch B, more_to_poll is true exactly when
\* len(B) is MAX_RESPONSE_LOGS.
C6_HasMoreIffFullPage ==
    pc = "DONE" => (more_to_poll <=> len(Batch) = MAX_RESPONSE_LOGS)

\* a successful poll returned a full page
C6_Witness == pc = "DONE" /\ len(Batch) = MAX_RESPONSE_LOGS /\ more_to_poll

\* C7: the GET of every poll carries the single query parameter mintime, the
\* watermark at the start of the poll plus one; after a successful poll whose
\* batch ended at timestamp t the next poll sends t + 1.
C7_MintimeIsWatermarkPlusOne ==
    request # NoRequest =>
        /\ DOMAIN request.params = {"mintime"}
        /\ ParseMintime(request.params.mintime) = cursor0.last_timestamp + 1
        /\ (Len(delivered) > 0 /\ poll_count > 0 /\ prev.failedAt = "" /\ pc # "DONE")
              => ParseMintime(request.params.mintime)
                    = TimestampOf(plog, delivered[Len(delivered)].hi) + 1

\* the poll after a successful poll has sent its GET
C7_Witness ==
    /\ request # NoRequest
    /\ pc = "VALIDATE_RESPONSE"
    /\ poll_count > 0
    /\ prev.failedAt = ""
    /\ Len(delivered) > 0
    /\ last_timestamp > w0

\* C8: when every returned batch held only records with timestamp >= the
\* mintime of its poll, no record is returned by two successful polls.
C8_NoRedelivery ==
    (\A j \in 1 .. Len(delivered) : RespectsMintime(delivered[j], delivered[j].mintime))
        => \A j, k \in 1 .. Len(delivered) :
              j < k => (delivered[j].hi < delivered[k].lo \/ delivered[k].hi < delivered[j].lo)

\* two successful polls, both answered with records at or after mintime
C8_Witness ==
    /\ Len(delivered) >= 2
    /\ \A j \in 1 .. Len(delivered) : RespectsMintime(delivered[j], delivered[j].mintime)

\* C9: the poll after a poll that failed at FETCH or VALIDATE_RESPONSE sends
\* the mintime the failed poll sent.
C9_RetrySameMintime ==
    (request # NoRequest /\ prev.failedAt \in {"FETCH", "VALIDATE_RESPONSE"})
        => request.params.mintime = prev.mintime

\* the second retry in a row, after an earlier poll had moved the watermark
C9_Witness ==
    /\ request # NoRequest
    /\ prev.failedAt = "VALIDATE_RESPONSE"
    /\ last_timestamp > w0

\* C10 as claimed: _sleep_seconds returns 60 when the poll count is odd and 0
\* when it is even.
C10_SleepOddSixty ==
    sleep # NoSleep => sleep.seconds = (IF sleep.poll_count % 2 = 1 THEN 60 ELSE 0)

\* C10 amended: _sleep_seconds returns 60 when the poll count is even and 0
\* when it is odd; _sleep_seconds(0) = 60 and _sleep_seconds(1) = 0.
C10_SleepEvenSixty ==
    sleep # NoSleep => sleep.seconds = (IF sleep.poll_count % 2 = 0 THEN 60 ELSE 0)

\* the pacing function was asked about an odd poll count
C10_Witness == sleep # NoSleep /\ sleep.poll_count % 2 = 1 /\ sleep.poll_count > 1

\* C11: with a secret key of a type hmac.new rejects, a poll hands no GET to
\* the transport, ends at the signing step by returning the error value False
\* to its caller, and leaves last_timestamp as it was.
C11_SignFailureSendsNothing ==
    config.auth.secret_key.type # "str" =>
        /\ request = NoRequest
        /\ pc \in {"IDLE", "BUILD_REQUEST", "SIGN", "FAILED"}
        /\ pc = "FAILED" =>
              /\ failedAt = "SIGN"
              /\ ret = "False"
              /\ last_timestamp = cursor0.last_timestamp

\* the second poll of a collector with a malformed key has failed at signing
C11_Witness ==
    /\ config.auth.secret_key.type # "str"
    /\ pc = "FAILED"
    /\ failedAt = "SIGN"
    /\ poll_count > 0

\* the exceptions a poll can leave by
Exceptions == {"ConnectionError", "ValueError", "KeyError", "IndexError"}

\* the error kind the failing step stands for
ErrorKind(step) ==
    CASE step = "SIGN" -> "AuthFailure"
      [] step \in {"FETCH", "VALIDATE_RESPONSE"} -> "HttpFailure"
      [] step \in {"DECODE", "ADVANCE_CURSOR"} -> "DecodeFailure"
      [] OTHER -> ""

\* C12: a poll that fails at signing, at validation or at decoding returns an
\* error value (it does not raise), and two polls that failed with different
\* error kinds hand their callers different values.
C12_ErrorsIdentifyStep ==
    /\ (pc = "FAILED" /\ failedAt # "FETCH") => ret \notin Exceptions
    /\ (peer.pc = "FAILED" /\ peer.failedAt # "FETCH") => peer.ret \notin Exceptions
    /\ (pc = "FAILED" /\ peer.pc = "FAILED"
            /\ ErrorKind(failedAt) # ErrorKind(peer.failedAt))
          => ret # peer.ret

\* C14: under every interleaving of the steps of two collectors, a step of one
\* leaves the other's last_timestamp and more_to_poll alone, and each
\* collector's cursor after a poll is what its own poll makes of it: the last
\* timestamp and fullness of its own batch after a success, its own cursor at
\* the start of the poll after a failure.
C14_InstanceIndependence ==
    /\ [][/\ peer' # peer => cursor' = cursor
          /\ pc' # pc =>
                /\ peer'.last_timestamp = peer.last_timestamp
                /\ peer'.more_to_poll = peer.more_to_poll]_vars
    /\ [](/\ pc = "FAILED" => cursor = cursor0
          /\ pc = "DONE" =>
                /\ last_timestamp = TimestampOf(plog, response.body.response.hi)
                /\ more_to_poll = (len(response.body.response) = MAX_RESPONSE_LOGS)
          /\ peer.pc = "FAILED" =>
                /\ peer.last_timestamp = peer.cursor0.last_timestamp
                /\ peer.more_to_poll = peer.cursor0.more_to_poll
          /\ peer.pc = "DONE" =>
                /\ peer.last_timestamp
                      = TimestampOf(peer.plog, peer.response.body.response.hi)
                /\ peer.more_to_poll
                      = (len(peer.response.body.response) = MAX_RESPONSE_LOGS))

\* one collector has advanced its cursor while the other is in the middle of
\* a poll and still holds its own
C14_Witness ==
    /\ peer.pc = "DONE"
    /\ peer.more_to_poll
    /\ pc = "ADVANCE_CURSOR"
    /\ last_timestamp = FirstTs - 1
    /\ ~more_to_poll

\* the order of the steps of a poll
StepOrder ==
    {<<"IDLE", "BUILD_REQUEST">>, <<"BUILD_REQUEST", "SIGN">>,
     <<"SIGN", "FETCH">>, <<"FETCH", "VALIDATE_RESPONSE">>,
     <<"VALIDATE_RESPONSE", "DECODE">>, <<"DECODE", "ADVANCE_CURSOR">>,
     <<"ADVANCE_CURSOR", "DONE">>,
     <<"SIGN", "FAILED">>, <<"FETCH", "FAILED">>, <<"VALIDATE_RESPONSE", "FAILED">>,
     <<"DECODE", "FAILED">>, <<"ADVANCE_CURSOR", "FAILED">>,
     <<"DONE", "IDLE">>, <<"FAILED", "IDLE">>}

\* C15: the steps of a poll follow one another in the order BUILD_REQUEST,
\* SIGN, FETCH, VALIDATE_RESPONSE, DECODE, ADVANCE_CURSOR; the GET of a poll
\* carries the headers signed in that poll; the cursor is written only in
\* ADVANCE_CURSOR, after the response of that poll was validated and decoded;
\* and every poll that starts ends in DONE or FAILED.
C15_StepOrdering ==
    /\ [][pc' # pc => <<pc, pc'>> \in StepOrder]_vars
    /\ [](request # NoRequest =>
            /\ headers # PyFalse
            /\ request.headers = headers
            /\ signedIn = poll_count)
    /\ [][cursor' # cursor =>
            /\ pc = "ADVANCE_CURSOR"
            /\ pc' = "DONE"
            /\ Decoded
            /\ logs = Batch
            /\ request.params = params]_vars
    /\ (pc = "BUILD_REQUEST" ~> pc \in {"DONE", "FAILED"})

\* the second poll of a collector went through every step and moved the cursor
C15_Witness ==
    /\ pc = "DONE"
    /\ poll_count > 0
    /\ signedIn = poll_count
    /\ cursor # cursor0

\* C16: in a collection cycle against a finite log, with every exchange
\* succeeding, the caller eventually sees a poll complete normally with
\* more_to_poll false, whatever the number of pending records.
C16_CycleTerminates == <>(pc = "DONE" /\ ~more_to_poll)

\* C17: when the caller sleeps _sleep_seconds() seconds after each poll, no
\* window of RateWindow consecutive seconds holds more than RateLimit requests.
C17_RateLimit ==
    \A i \in DOMAIN sentAt :
        Cardinality({j \in DOMAIN sentAt :
                        sentAt[i] <= sentAt[j] /\ sentAt[j] < sentAt[i] + RateWindow})
            <= RateLimit

\* four requests were issued, two of them within one window
C17_Witness ==
    /\ Len(sentAt) >= 4
    /\ \E i, j \in DOMAIN sentAt : i < j /\ sentAt[j] < sentAt[i] + RateWindow

\* the canonical string that was signed for the request in flight
Signed == request.headers.Authorization.b64encode[3].hmac_sha1

\* C18: the signature covers the request that is sent: the hostname, the
\* endpoint path and the mintime parameter of the signed canonical string are
\* the host, the path and the query of the GET, the Host header is that
\* hostname, and the Date header is the date that was signed.
C18_SignatureCoversRequest ==
    request # NoRequest =>
        /\ Signed[2] = "GET"
        /\ request.url = "https://" \o Signed[3] \o Signed[4]
        /\ Signed[5] = "mintime=" \o request.params.mintime
        /\ request.headers.Host = Signed[3]
        /\ request.headers.Date = Signed[1]

\* a request for the administrator logs was sent
C18_Witness ==
    /\ request # NoRequest
    /\ config.type = "admin"
    /\ Signed[4] = DUO_ADMIN_LOGS_ENDPOINT
    /\ pc = "VALIDATE_RESPONSE"

\* C19: the rule yields a boolean for every authentication record: true
\* exactly when result is 'FAILURE' and reason is 'Anonymous IP', false for
\* every other record, the records without a reason included.
C19_RuleYieldsBoolean ==
    rule_result.called =>
        /\ rule_result.raised = ""
        /\ rule_result.value = (/\ rec.result = "FAILURE"
                                /\ "reason" \in DOMAIN rec
                                /\ rec.reason = "Anonymous IP")

====
